---- MODULE Spec2Model ----
(***************************************************************************)
(* The SSE relay of bubble-mastra-stream.                                  *)
(*                                                                         *)
(* Two source files implement the same endpoint:                           *)
(*   src/api/stream.ts      default export `handler`  (impl = "handler")   *)
(*   src/unnamed/part_000   export `POST`             (impl = "POST")      *)
(*                                                                         *)
(* One request is followed from its arrival to the end of the stream's     *)
(* start callback.  JavaScript runs a callback to its next `await` without *)
(* interruption, so one action is one such synchronous block: it begins    *)
(* when an awaited pipeline call settles (returns or throws) and ends at   *)
(* the next await or at the end of start().  The client acts between the   *)
(* blocks: it reads queued frames or disconnects (cancels the stream).     *)
(*                                                                         *)
(* The output channel is a ReadableStreamDefaultController: enqueue() and  *)
(* close() throw a TypeError once the stream is no longer readable or a    *)
(* close has been requested.                                               *)
(***************************************************************************)
EXTENDS Integers, Sequences, FiniteSets, TLC

\* ---------------------------------------------------------------- bounds
\* longest notification sequence a run yields
MaxNotifs == 2

\* longest notification sequence a run yields when two requests are
\* followed together
MaxConcNotifs == 1

\* ---------------------------------------------------------------- values
UNDEF == "<undefined>"

Impls == {"handler", "POST"}
Methods == {"POST", "GET", "PUT"}

\* request bodies: a JSON object with a prompt, one with an empty prompt, one
\* without a prompt, text that is not JSON, and no body at all
Bodies == {"{\"prompt\":\"hi\"}", "{\"prompt\":\"\"}", "{}", "not json", ""}
NoBody == "<none>"

\* opaque progress notifications (JSON strings in this model)
Notifs == {"n1", "n2", "n3"}

\* the k-th notification of a run's sequence: the items of a sequence are
\* told apart, so that a lost, repeated or displaced item shows
NotifAt(k) == IF k = 1 THEN "n1" ELSE IF k = 2 THEN "n2" ELSE "n3"

\* the value run.result() resolves to
Results == {"res"}

\* values a pipeline call can throw: an Error with a message, an Error with
\* an empty message, a bare object with only a message, and a value with
\* neither field (null, a string, a plain object)
Thrown ==
    { [message |-> "boom", name |-> "Error"],
      [message |-> "",     name |-> "Error"],
      [message |-> "boom", name |-> UNDEF],
      [message |-> UNDEF,  name |-> UNDEF] }

\* TypeError of controller.enqueue / controller.close on a stream that is
\* not readable
InvalidState == [message |-> "Invalid state", name |-> "TypeError"]

\* TypeError of `for await` over a value that is not async iterable
NotIterable == [message |-> "not async iterable", name |-> "TypeError"]

NoExc == [message |-> "<none>", name |-> "<none>"]

\* shapes of the value run.stream() resolves to
RawBare     == [events |-> UNDEF,  self |-> "seq"]
RawWrapper  == [events |-> "seq",  self |-> "object"]
RawNullEv   == [events |-> "null", self |-> "seq"]
\* values that are neither form: null or undefined, a wrapper whose .events
\* is some other object, and a wrapper whose .events is an array (iterable,
\* though not an asynchronous sequence)
RawNull     == [events |-> UNDEF,   self |-> "null"]
RawBadEv    == [events |-> "other", self |-> "object"]
RawArrayEv  == [events |-> "array", self |-> "object"]
RawForms    == {RawBare, RawWrapper, RawNullEv, RawNull, RawBadEv, RawArrayEv}
NoRaw       == [events |-> UNDEF, self |-> "none"]

VARIABLES
    impl,            \* which implementation serves the request
    pc,              \* position of the request: the await it is suspended on
    method,          \* request.method
    prompt,          \* the prompt captured from the body
    response,        \* status of the Response returned (0: none yet)
    state,           \* stream state: "none", "readable", "closed"
    closeRequested,  \* controller.close() accepted
    queue,           \* frames enqueued and not yet read by the client
    nread,           \* number of frames the client has read
    cancelledAt,     \* pc at which the client disconnected ("" if it has not)
    raw,             \* value run.stream() resolved to
    pulled,          \* notifications the sequence has yielded so far
    failedAt,        \* operation of the try block that threw ("none" if none)
    caught,          \* value the catch clause received (NoExc if none)
    rejected,        \* value start() rejected with (NoExc if it resolved)
    trace,           \* effects of the relay in program order
    body,            \* the body of the POST request
    engine,          \* the workflow run: its stages and their generate calls
    chans,           \* concurrent requests: the channel of each request
    runs             \* concurrent requests: the closure state of each handler

\* the variables of the concurrent requests
concVars == << chans, runs >>

\* the variables of the single request that is followed
relayVars == << impl, pc, method, prompt, response, state, closeRequested,
                queue, nread, cancelledAt, raw, pulled, failedAt, caught,
                rejected, trace, body >>

vars == << impl, pc, method, prompt, response, state, closeRequested, queue,
           nread, cancelledAt, raw, pulled, failedAt, caught, rejected, trace,
           body, engine, chans, runs >>

\* ------------------------------------------------------------ sse framing
\* variant of StringifyStr that writes the text as it is, with no JSON encoding
StringifyStrRaw(s) == s

\* JSON.stringify of a string
StringifyStr(s) == "\"" \o s \o "\""

\* JSON.stringify of { message, name }: a key whose value is undefined is
\* left out
StringifyErr(m, n) ==
    "{" \o (IF m = UNDEF THEN "" ELSE "\"message\":" \o StringifyStr(m))
        \o (IF n = UNDEF THEN ""
            ELSE (IF m = UNDEF THEN "" ELSE ",") \o "\"name\":" \o StringifyStr(n))
        \o "}"

OkJson == "{\"ok\":true}"

\* sse(event, data): one frame `event: <event>\ndata: <json>\n\n`
sse(event, json) == [event |-> event, data |-> json]

\* variant of MessageOf written with `??` in place of `||`: an empty message
\* is kept
MessageOfNullish(i, e) ==
    IF e.message = UNDEF
    THEN (IF i = "handler" THEN "unknown error" ELSE "unexpected error")
    ELSE e.message

\* the fallback text of each implementation
Fallback(i) == IF i = "handler" THEN "unknown error" ELSE "unexpected error"

\* e?.message || <fallback>
MessageOf(i, e) ==
    IF e.message = UNDEF \/ e.message = "" THEN Fallback(i) ELSE e.message

\* variant of ErrorFrame that reports every failure with the fixed text
ErrorFrameGeneric(i, e) == sse("error", StringifyErr(Fallback(i), UNDEF))

\* the payload of the `error` event
ErrorFrame(i, e) ==
    IF i = "handler"
    THEN sse("error", StringifyErr(MessageOf(i, e), e.name))
    ELSE sse("error", StringifyErr(MessageOf(i, e), UNDEF))

\* --------------------------------------------------------- prompt parsing
\* request.json() resolves for a body that is JSON text and throws otherwise
JsonParses(b) == b \in {"{\"prompt\":\"hi\"}", "{\"prompt\":\"\"}", "{}"}

\* body?.prompt of the parsed body
PromptField(b) ==
    IF b = "{\"prompt\":\"hi\"}" THEN "hi"
    ELSE IF b = "{\"prompt\":\"\"}" THEN ""
    ELSE UNDEF

\* body?.prompt ?? "" ; "" when request.json() throws
ParsePrompt(b) ==
    IF ~JsonParses(b) THEN ""
    ELSE IF PromptField(b) = UNDEF THEN "" ELSE PromptField(b)

\* ------------------------------------------------------------- controller
\* A controller value: the stream's state together with the effect log.
Ctl == [state |-> state, closeRequested |-> closeRequested,
        queue |-> queue, trace |-> trace]

Ev(op, ev, data) == [op |-> op, ev |-> ev, data |-> data]

CanCloseOrEnqueue(c) == c.state = "readable" /\ ~c.closeRequested

\* controller.enqueue(frame): result [c, threw]
Enqueue(c, f) ==
    IF CanCloseOrEnqueue(c)
    THEN [c |-> [c EXCEPT !.queue = Append(@, f),
                          !.trace = Append(@, Ev("write", f.event, f.data))],
          threw |-> FALSE]
    ELSE [c |-> [c EXCEPT !.trace = Append(@, Ev("writefail", f.event, f.data))],
          threw |-> TRUE]

\* controller.close(): result [c, threw]
Close(c) ==
    IF CanCloseOrEnqueue(c)
    THEN [c |-> [c EXCEPT !.closeRequested = TRUE,
                          !.state = IF c.queue = << >> THEN "closed" ELSE @,
                          !.trace = Append(@, Ev("close", "", ""))],
          threw |-> FALSE]
    ELSE [c |-> [c EXCEPT !.trace = Append(@, Ev("closefail", "", ""))],
          threw |-> TRUE]

Call(c, name, arg) == [c EXCEPT !.trace = Append(@, Ev("call", name, arg))]

\* an awaited iterator step settled: an item ("item") or the end ("end")
Got(c, what, item) == [c EXCEPT !.trace = Append(@, Ev("got", what, item))]

\* ----------------------------------------------------------------- stages
\* variant of workflow with the last two stages chained the other way round
workflowSwapped == << "plan", "reflect", "act" >>

\* createWorkflow(...).then(plan).then(act).then(reflect).commit()
workflow == << "plan", "act", "reflect" >>

\* the instruction a stage hands to agent.generate for the input it received
Instruction(stage, p) ==
    IF stage = "plan"
    THEN "request: " \o p \o " / split it into 3 steps, one line of purpose each"
    ELSE IF stage = "act"
    THEN "following the plan above, draft the request [" \o p \o "] briefly"
    ELSE "read the draft, make it clearer and shorter, return the final result. request: " \o p

\* texts agent.generate resolves to
Texts == {"t1"}

\* the value agent.generate throws when it fails
GenThrown == { [message |-> "boom", name |-> "Error"] }

\* a run before its first stage
NoEngine == [stageNo |-> 0, running |-> "", invoked |-> << >>,
             outputs |-> << >>, genError |-> NoExc, failedStage |-> ""]

\* ------------------------------------------------------- catch / finally
\* variant of Finally that writes `done` and leaves the channel open
FinallyNoClose(c, pending) ==
    LET c0 == [c EXCEPT !.trace = Append(@, Ev("finally", "", ""))]
        d  == Enqueue(c0, sse("done", OkJson))
    IN  [c |-> d.c, exc |-> IF d.threw THEN InvalidState ELSE pending]

\* variant of Finally with the two statements swapped: close(), then
\* enqueue(done)
FinallyCloseFirst(c, pending) ==
    LET c0 == [c EXCEPT !.trace = Append(@, Ev("finally", "", ""))]
        k  == Close(c0)
    IN  IF k.threw
        THEN [c |-> k.c, exc |-> InvalidState]
        ELSE LET d == Enqueue(k.c, sse("done", OkJson))
             IN  [c |-> d.c, exc |-> IF d.threw THEN InvalidState ELSE pending]

\* finally { enqueue(done); close() } entered with `pending`, the exception
\* in flight (NoExc if none).  An exception thrown inside replaces it.
Finally(c, pending) ==
    LET c0 == [c EXCEPT !.trace = Append(@, Ev("finally", "", ""))]
        d  == Enqueue(c0, sse("done", OkJson))
    IN  IF d.threw
        THEN [c |-> d.c, exc |-> InvalidState]
        ELSE LET k == Close(d.c)
             IN  [c |-> k.c, exc |-> IF k.threw THEN InvalidState ELSE pending]

\* variant of CatchFinally with an empty catch clause: the failure is
\* swallowed and only the finally block runs
CatchFinallySilent(i, c, e) == Finally(c, NoExc)

\* variant of CatchFinally with try/finally nested inside try/catch: the
\* finally block runs before the catch clause
CatchAfterFinally(i, c, e) ==
    LET r == Finally(c, e)
        w == Enqueue(r.c, ErrorFrame(i, e))
    IN  [c |-> w.c, exc |-> IF w.threw THEN InvalidState ELSE NoExc]

\* catch (e) { enqueue(error) } finally { ... }
CatchFinally(i, c, e) ==
    LET w == Enqueue(c, ErrorFrame(i, e))
    IN  Finally(w.c, IF w.threw THEN InvalidState ELSE NoExc)

\* ------------------------------------------------------ concurrent requests
Reqs == {"a", "b"}

\* no stream constructed yet
NoChan == [state |-> "none", closeRequested |-> FALSE, queue |-> << >>,
           trace |-> << >>]

\* a handler invocation that has not begun
NoRun == [impl |-> "handler", pc |-> "idle", prompt |-> "", pulled |-> << >>,
          failedAt |-> "none", cancelled |-> FALSE]

\* -------------------------------------------------------------------- init
Init ==
    /\ impl = "handler"
    /\ pc = "idle"
    /\ method = ""
    /\ prompt = ""
    /\ response = 0
    /\ state = "none"
    /\ closeRequested = FALSE
    /\ queue = << >>
    /\ nread = 0
    /\ cancelledAt = ""
    /\ raw = NoRaw
    /\ pulled = << >>
    /\ failedAt = "none"
    /\ caught = NoExc
    /\ rejected = NoExc
    /\ trace = << >>
    /\ body = NoBody
    /\ engine = NoEngine
    /\ chans = [r \in Reqs |-> NoChan]
    /\ runs = [r \in Reqs |-> NoRun]

\* install a controller value
SetCtl(c) ==
    /\ state' = c.state
    /\ closeRequested' = c.closeRequested
    /\ queue' = c.queue
    /\ trace' = c.trace

\* the try block threw e at operation `at`: run catch and finally, end start().
\* start() rejects only when a write of the finally block threw, that is when
\* the stream is already closed, so the rejection leaves the stream as it is.
Fail(c, at, e) ==
    LET r == CatchFinally(impl, c, e)
    IN  /\ SetCtl(r.c)
        /\ failedAt' = at
        /\ caught' = e
        /\ rejected' = r.exc
        /\ pc' = "end"

\* ------------------------------------------------------------ the pipeline
\* every stage of the workflow has returned
RunSucceeded == engine.stageNo = Len(workflow)

\* the run is over: it succeeded, or a stage failed and the rest was dropped
RunSettled == RunSucceeded \/ engine.genError # NoExc

\* what the run's sequence and result may throw: the failure of a stage once
\* one has failed, a failure of their own otherwise
MayThrow(e) == engine.genError # NoExc => e = engine.genError

\* the run is executing: run.stream() has resolved and start() is awaiting
\* the run's next notification
Executing == pc = "next"

\* the workflow invokes its next stage with the run's input; the stage builds
\* its instruction from input.prompt and calls agent.generate
StageInvoke ==
    /\ Executing
    /\ engine.running = ""
    /\ engine.genError = NoExc
    /\ engine.stageNo < Len(workflow)
    /\ LET s == workflow[engine.stageNo + 1]
       IN  engine' = [engine EXCEPT
                        !.running = s,
                        !.invoked = Append(@, [stage |-> s, input |-> prompt,
                                               instruction |-> Instruction(s, prompt)])]
    /\ UNCHANGED << relayVars, concVars >>

\* agent.generate resolved: the stage returns out.text, the next stage may run
StageReturns(t) ==
    /\ Executing
    /\ engine.running # ""
    /\ engine' = [engine EXCEPT !.running = "",
                                !.stageNo = @ + 1,
                                !.outputs = Append(@, t)]
    /\ UNCHANGED << relayVars, concVars >>

\* agent.generate threw: the stage does not catch it, the run fails
StageThrows(e) ==
    /\ Executing
    /\ engine.running # ""
    /\ engine' = [engine EXCEPT !.running = "",
                                !.genError = e,
                                !.failedStage = engine.running]
    /\ UNCHANGED << relayVars, concVars >>

\* ----------------------------------------------------------------- actions
\* OPTIONS(): 204 with the CORS headers, nothing else
Options ==
    /\ pc = "idle"
    /\ pc' = "preflight"
    /\ method' = "OPTIONS"
    /\ response' = 204
    /\ UNCHANGED << impl, prompt, state, closeRequested, queue, nread,
                    cancelledAt, raw, pulled, failedAt, caught, rejected, trace >>
    /\ UNCHANGED << body, engine, concVars >>

\* variant of MethodNotAllowed that tests the method after the stream has
\* been constructed: start() has already written `ready`
MethodNotAllowedLate(m) ==
    /\ pc = "idle"
    /\ m # "POST"
    /\ impl' = "handler"
    /\ method' = m
    /\ response' = 405
    /\ pc' = "refused"
    /\ LET c0 == [state |-> "readable", closeRequested |-> FALSE,
                  queue |-> << >>, trace |-> << >>]
       IN  SetCtl(Enqueue(c0, sse("ready", OkJson)).c)
    /\ UNCHANGED << prompt, nread, cancelledAt, raw, pulled, failedAt, caught,
                    rejected >>
    /\ UNCHANGED << body, engine, concVars >>

\* handler(request) with a method other than POST
MethodNotAllowed(m) ==
    /\ pc = "idle"
    /\ m # "POST"
    /\ impl' = "handler"
    /\ method' = m
    /\ response' = 405
    /\ pc' = "refused"
    /\ UNCHANGED << prompt, state, closeRequested, queue, nread, cancelledAt,
                    raw, pulled, failedAt, caught, rejected, trace >>
    /\ UNCHANGED << body, engine, concVars >>

\* variant of Post without the try/catch around request.json(): a body that
\* does not parse aborts the request with a server error
PostStrict(i, b) ==
    /\ pc = "idle"
    /\ impl' = i
    /\ method' = "POST"
    /\ body' = b
    /\ IF JsonParses(b)
       THEN /\ prompt' = ParsePrompt(b)
            /\ response' = 200
            /\ LET c0 == [state |-> "readable", closeRequested |-> FALSE,
                          queue |-> << >>, trace |-> << >>]
                   r  == Enqueue(c0, sse("ready", OkJson))
               IN  SetCtl(Call(r.c, "createRunAsync", ""))
            /\ pc' = "createRunAsync"
       ELSE /\ response' = 500
            /\ pc' = "refused"
            /\ UNCHANGED << prompt, state, closeRequested, queue, trace >>
    /\ UNCHANGED << nread, cancelledAt, raw, pulled, failedAt, caught, rejected >>
    /\ UNCHANGED << engine, concVars >>

\* variant of Post whose start() creates the run before it writes `ready`
PostRunFirst(i, b) ==
    /\ pc = "idle"
    /\ impl' = i
    /\ method' = "POST"
    /\ prompt' = ParsePrompt(b)
    /\ response' = 200
    /\ LET c0 == [state |-> "readable", closeRequested |-> FALSE,
                  queue |-> << >>, trace |-> << >>]
           r  == Enqueue(Call(c0, "createRunAsync", ""), sse("ready", OkJson))
       IN  SetCtl(r.c)
    /\ pc' = "createRunAsync"
    /\ UNCHANGED << nread, cancelledAt, raw, pulled, failedAt, caught, rejected >>
    /\ body' = b
    /\ UNCHANGED << engine, concVars >>

\* handler(request) / POST(request) for a POST: parse the body, construct the
\* stream; start() writes `ready` and calls workflow.createRunAsync()
Post(i, b) ==
    /\ pc = "idle"
    /\ impl' = i
    /\ method' = "POST"
    /\ prompt' = ParsePrompt(b)
    /\ response' = 200
    /\ LET c0 == [state |-> "readable", closeRequested |-> FALSE,
                  queue |-> << >>, trace |-> << >>]
           r  == Enqueue(c0, sse("ready", OkJson))
       IN  SetCtl(Call(r.c, "createRunAsync", ""))
    /\ pc' = "createRunAsync"
    /\ UNCHANGED << nread, cancelledAt, raw, pulled, failedAt, caught, rejected >>
    /\ body' = b
    /\ UNCHANGED << engine, concVars >>

\* createRunAsync() resolved: call run.stream({ inputData: { prompt } })
CreateRunReturns ==
    /\ pc = "createRunAsync"
    /\ SetCtl(Call(Ctl, "stream", prompt))
    /\ pc' = "stream"
    /\ UNCHANGED << impl, method, prompt, response, nread, cancelledAt, raw,
                    pulled, failedAt, caught, rejected >>
    /\ UNCHANGED << body, engine, concVars >>

CreateRunThrows(e) ==
    /\ pc = "createRunAsync"
    /\ Fail(Ctl, "createRunAsync", e)
    /\ UNCHANGED << impl, method, prompt, response, nread, cancelledAt, raw,
                    pulled >>
    /\ UNCHANGED << body, engine, concVars >>

\* variant of Iterable in which POST expects the wrapper and iterates its
\* `.events`
IterableEventsOnly(i, r) ==
    IF i = "handler"
    THEN (IF r.events \notin {UNDEF, "null"} THEN r.events ELSE r.self)
    ELSE r.events

\* the value the relay iterates
Iterable(i, r) ==
    IF i = "handler"
    THEN (IF r.events \notin {UNDEF, "null"} THEN r.events ELSE r.self)
    ELSE r.self

\* `for await` iterates an async iterable and, failing that, a sync iterable
ForAwaitAccepts(it) == it \in {"seq", "array"}

\* variant of StreamReturns that tests the value before the loop and skips
\* the loop when it cannot be iterated, going straight to run.result()
StreamReturnsLenient(r) ==
    /\ pc = "stream"
    /\ raw' = r
    /\ IF ForAwaitAccepts(Iterable(impl, r))
       THEN /\ SetCtl(Call(Ctl, "next", ""))
            /\ pc' = "next"
       ELSE /\ SetCtl(Call(Ctl, "result", ""))
            /\ pc' = "result"
    /\ UNCHANGED << failedAt, caught, rejected >>
    /\ UNCHANGED << impl, method, prompt, response, nread, cancelledAt, pulled >>
    /\ UNCHANGED << body, engine, concVars >>

\* variant of StreamReturns that fetches the result before it drains the
\* sequence
StreamReturnsResultFirst(r) ==
    /\ pc = "stream"
    /\ raw' = r
    /\ IF ForAwaitAccepts(Iterable(impl, r))
       THEN /\ SetCtl(Call(Ctl, "result", ""))
            /\ pc' = "result"
            /\ UNCHANGED << failedAt, caught, rejected >>
       ELSE Fail(Ctl, "iterate", NotIterable)
    /\ UNCHANGED << impl, method, prompt, response, nread, cancelledAt, pulled >>
    /\ UNCHANGED << body, engine, concVars >>

\* run.stream() resolved to r: normalise, then begin `for await`
StreamReturns(r) ==
    /\ pc = "stream"
    /\ raw' = r
    /\ IF ForAwaitAccepts(Iterable(impl, r))
       THEN /\ SetCtl(Call(Ctl, "next", ""))
            /\ pc' = "next"
            /\ UNCHANGED << failedAt, caught, rejected >>
       ELSE Fail(Ctl, "iterate", NotIterable)
    /\ UNCHANGED << impl, method, prompt, response, nread, cancelledAt, pulled >>
    /\ UNCHANGED << body, engine, concVars >>

StreamThrows(e) ==
    /\ pc = "stream"
    /\ Fail(Ctl, "stream", e)
    /\ UNCHANGED << impl, method, prompt, response, nread, cancelledAt, raw,
                    pulled >>
    /\ UNCHANGED << body, engine, concVars >>

\* variant of NextYields with the write guarded inside the loop: a failed
\* `progress` write is ignored and the loop goes on draining
NextYieldsKeepsDraining(n) ==
    /\ pc = "next"
    /\ Len(pulled) < MaxNotifs
    /\ n = NotifAt(Len(pulled) + 1)
    /\ pulled' = Append(pulled, n)
    /\ LET w == Enqueue(Got(Ctl, "item", n), sse("progress", StringifyStr(n)))
       IN  /\ SetCtl(Call(w.c, "next", ""))
           /\ pc' = "next"
    /\ UNCHANGED << impl, method, prompt, response, nread, cancelledAt, raw,
                    failedAt, caught, rejected >>
    /\ UNCHANGED << body, engine, concVars >>

\* variant of NextYields that asks for the next item before it writes the
\* `progress` event of the item it holds
NextYieldsLate(n) ==
    /\ pc = "next"
    /\ Len(pulled) < MaxNotifs
    /\ n = NotifAt(Len(pulled) + 1)
    /\ pulled' = Append(pulled, n)
    /\ LET w == Enqueue(Call(Got(Ctl, "item", n), "next", ""),
                        sse("progress", StringifyStr(n)))
       IN  IF w.threw
           THEN /\ SetCtl(Call(w.c, "return", ""))
                /\ pc' = "return"
           ELSE /\ SetCtl(w.c)
                /\ pc' = "next"
    /\ UNCHANGED << impl, method, prompt, response, nread, cancelledAt, raw,
                    failedAt, caught, rejected >>
    /\ UNCHANGED << body, engine, concVars >>

\* the sequence yielded n: write `progress`, then ask for the next item; a
\* failed write leaves the loop, which first closes the iterator (return())
NextYields(n) ==
    /\ pc = "next"
    /\ Len(pulled) < MaxNotifs
    /\ n = NotifAt(Len(pulled) + 1)
    /\ pulled' = Append(pulled, n)
    /\ LET w == Enqueue(Got(Ctl, "item", n), sse("progress", StringifyStr(n)))
       IN  IF w.threw
           THEN /\ SetCtl(Call(w.c, "return", ""))
                /\ pc' = "return"
           ELSE /\ SetCtl(Call(w.c, "next", ""))
                /\ pc' = "next"
    /\ UNCHANGED << impl, method, prompt, response, nread, cancelledAt, raw,
                    failedAt, caught, rejected >>
    /\ UNCHANGED << body, engine, concVars >>

\* iterator.return() settled after a failed `progress` write: the write's
\* TypeError reaches the catch clause
ReturnSettles ==
    /\ pc = "return"
    /\ Fail(Ctl, "write", InvalidState)
    /\ UNCHANGED << impl, method, prompt, response, nread, cancelledAt, raw,
                    pulled >>
    /\ UNCHANGED << body, engine, concVars >>

\* the sequence ended: call run.result()
NextDone ==
    /\ pc = "next"
    /\ RunSettled
    /\ SetCtl(Call(Got(Ctl, "end", ""), "result", ""))
    /\ pc' = "result"
    /\ UNCHANGED << impl, method, prompt, response, nread, cancelledAt, raw,
                    pulled, failedAt, caught, rejected >>
    /\ UNCHANGED << body, engine, concVars >>

NextThrows(e) ==
    /\ pc = "next"
    /\ MayThrow(e)
    /\ Fail(Ctl, "next", e)
    /\ UNCHANGED << impl, method, prompt, response, nread, cancelledAt, raw,
                    pulled >>
    /\ UNCHANGED << body, engine, concVars >>

\* run.result() resolved: write `final`, then the finally block
ResultReturns(v) ==
    /\ pc = "result"
    /\ RunSucceeded
    /\ LET w == Enqueue(Ctl, sse("final", StringifyStr(v)))
       IN  IF w.threw
           THEN Fail(w.c, "write", InvalidState)
           ELSE LET r == Finally(w.c, NoExc)
                IN  /\ SetCtl(r.c)
                    /\ rejected' = r.exc
                    /\ pc' = "end"
                    /\ UNCHANGED << failedAt, caught >>
    /\ UNCHANGED << impl, method, prompt, response, nread, cancelledAt, raw,
                    pulled >>
    /\ UNCHANGED << body, engine, concVars >>

ResultThrows(e) ==
    /\ pc = "result"
    /\ MayThrow(e)
    /\ Fail(Ctl, "result", e)
    /\ UNCHANGED << impl, method, prompt, response, nread, cancelledAt, raw,
                    pulled >>
    /\ UNCHANGED << body, engine, concVars >>

\* the client reads one frame; the last frame of a closing stream closes it
ClientRead ==
    /\ state = "readable"
    /\ queue # << >>
    /\ queue' = Tail(queue)
    /\ nread' = nread + 1
    /\ state' = IF closeRequested /\ Tail(queue) = << >> THEN "closed" ELSE state
    /\ UNCHANGED << impl, pc, method, prompt, response, closeRequested,
                    cancelledAt, raw, pulled, failedAt, caught, rejected, trace >>
    /\ UNCHANGED << body, engine, concVars >>

\* the client disconnects: the stream is cancelled, its queue dropped
ClientCancel ==
    /\ state = "readable"
    /\ state' = "closed"
    /\ queue' = << >>
    /\ cancelledAt' = pc
    /\ UNCHANGED << impl, pc, method, prompt, response, closeRequested, nread,
                    raw, pulled, failedAt, caught, rejected, trace >>
    /\ UNCHANGED << body, engine, concVars >>

Next ==
    \/ Options
    \/ \E m \in Methods : MethodNotAllowed(m)
    \/ \E i \in Impls, b \in Bodies : Post(i, b)
    \/ CreateRunReturns
    \/ \E e \in Thrown : CreateRunThrows(e)
    \/ \E r \in RawForms : StreamReturns(r)
    \/ \E e \in Thrown : StreamThrows(e)
    \/ \E n \in Notifs : NextYields(n)
    \/ ReturnSettles
    \/ NextDone
    \/ \E e \in Thrown : NextThrows(e)
    \/ \E v \in Results : ResultReturns(v)
    \/ \E e \in Thrown : ResultThrows(e)
    \/ ClientRead
    \/ ClientCancel
    \/ StageInvoke
    \/ \E t \in Texts : StageReturns(t)
    \/ \E e \in GenThrown : StageThrows(e)

Spec == Init /\ [][Next]_vars

\* the fairness the event loop gives: an awaited call that has settled is
\* resumed; the client is under no obligation to read or to disconnect
Settle ==
    \/ CreateRunReturns
    \/ \E e \in Thrown : CreateRunThrows(e)
    \/ \E r \in RawForms : StreamReturns(r)
    \/ \E e \in Thrown : StreamThrows(e)
    \/ \E n \in Notifs : NextYields(n)
    \/ ReturnSettles
    \/ NextDone
    \/ \E e \in Thrown : NextThrows(e)
    \/ \E v \in Results : ResultReturns(v)
    \/ \E e \in Thrown : ResultThrows(e)

\* a stage that can run is run, and agent.generate settles
Engine ==
    \/ StageInvoke
    \/ \E t \in Texts : StageReturns(t)
    \/ \E e \in GenThrown : StageThrows(e)

FairSpec == Spec /\ WF_vars(Settle) /\ WF_vars(Engine)

\* ------------------------------------------- two requests, interleaved
\* Every invocation of the handler builds its own ReadableStream, whose
\* start(controller) closes over its own controller and its own run; the
\* module shares only the agent, the workflow and the TextEncoder.

\* variant of ControllerOf for a relay that keeps the controller in a
\* module-level variable: every invocation writes to the same controller
ControllerOfShared(r) == "a"

\* the controller start() of request r writes to: the parameter of its own
\* stream's start()
ControllerOf(r) == r

\* the run createRunAsync() gave request r: the items its sequence yields,
\* the value its result resolves to, what its calls throw
RunNotifs(r) == { r \o "-n1" }
RunResults(r) == { r \o "-res" }
RunThrown(r) == { [message |-> r \o "-boom", name |-> "Error"] }

CCtl(r) == chans[ControllerOf(r)]

CSet(r, c) == chans' = [chans EXCEPT ![ControllerOf(r)] = c]

CGoto(r, to) == runs' = [runs EXCEPT ![r].pc = to]

\* catch and finally of request r
CFail(r, at, e) ==
    /\ CSet(r, CatchFinally(runs[r].impl, CCtl(r), e).c)
    /\ runs' = [runs EXCEPT ![r].pc = "end", ![r].failedAt = at]

CPost(r, i) ==
    /\ runs[r].pc = "idle"
    /\ LET c0 == [state |-> "readable", closeRequested |-> FALSE,
                  queue |-> << >>, trace |-> << >>]
           w  == Enqueue(c0, sse("ready", OkJson))
       IN  CSet(r, Call(w.c, "createRunAsync", ""))
    /\ runs' = [runs EXCEPT ![r].impl = i, ![r].pc = "createRunAsync"]
    /\ UNCHANGED << relayVars, engine >>

CCreateRunReturns(r) ==
    /\ runs[r].pc = "createRunAsync"
    /\ CSet(r, Call(CCtl(r), "stream", runs[r].prompt))
    /\ CGoto(r, "stream")
    /\ UNCHANGED << relayVars, engine >>

CCreateRunThrows(r, e) ==
    /\ runs[r].pc = "createRunAsync"
    /\ CFail(r, "createRunAsync", e)
    /\ UNCHANGED << relayVars, engine >>

\* run.stream() of request r resolved to the sequence itself
CStreamReturns(r) ==
    /\ runs[r].pc = "stream"
    /\ IF ForAwaitAccepts(Iterable(runs[r].impl, RawBare))
       THEN /\ CSet(r, Call(CCtl(r), "next", ""))
            /\ CGoto(r, "next")
       ELSE CFail(r, "iterate", NotIterable)
    /\ UNCHANGED << relayVars, engine >>

CStreamThrows(r, e) ==
    /\ runs[r].pc = "stream"
    /\ CFail(r, "stream", e)
    /\ UNCHANGED << relayVars, engine >>

CNextYields(r, n) ==
    /\ runs[r].pc = "next"
    /\ Len(runs[r].pulled) < MaxConcNotifs
    /\ LET w == Enqueue(Got(CCtl(r), "item", n), sse("progress", StringifyStr(n)))
       IN  IF w.threw
           THEN /\ CSet(r, Call(w.c, "return", ""))
                /\ runs' = [runs EXCEPT ![r].pulled = Append(@, n),
                                        ![r].pc = "return"]
           ELSE /\ CSet(r, Call(w.c, "next", ""))
                /\ runs' = [runs EXCEPT ![r].pulled = Append(@, n)]
    /\ UNCHANGED << relayVars, engine >>

CReturnSettles(r) ==
    /\ runs[r].pc = "return"
    /\ CFail(r, "write", InvalidState)
    /\ UNCHANGED << relayVars, engine >>

CNextDone(r) ==
    /\ runs[r].pc = "next"
    /\ CSet(r, Call(Got(CCtl(r), "end", ""), "result", ""))
    /\ CGoto(r, "result")
    /\ UNCHANGED << relayVars, engine >>

CNextThrows(r, e) ==
    /\ runs[r].pc = "next"
    /\ CFail(r, "next", e)
    /\ UNCHANGED << relayVars, engine >>

CResultReturns(r, v) ==
    /\ runs[r].pc = "result"
    /\ LET w == Enqueue(CCtl(r), sse("final", StringifyStr(v)))
       IN  IF w.threw
           THEN CFail(r, "write", InvalidState)
           ELSE /\ CSet(r, Finally(w.c, NoExc).c)
                /\ CGoto(r, "end")
    /\ UNCHANGED << relayVars, engine >>

CResultThrows(r, e) ==
    /\ runs[r].pc = "result"
    /\ CFail(r, "result", e)
    /\ UNCHANGED << relayVars, engine >>

\* the client of request r reads one frame of its response
CClientRead(r) ==
    /\ chans[r].state = "readable"
    /\ chans[r].queue # << >>
    /\ chans' = [chans EXCEPT
                   ![r].queue = Tail(@),
                   ![r].state = IF chans[r].closeRequested /\ Tail(chans[r].queue) = << >>
                                THEN "closed" ELSE @]
    /\ UNCHANGED << runs, relayVars, engine >>

\* the client of request r disconnects while start() is running
CClientCancel(r) ==
    /\ chans[r].state = "readable"
    /\ runs[r].pc # "end"
    /\ chans' = [chans EXCEPT ![r].state = "closed", ![r].queue = << >>]
    /\ runs' = [runs EXCEPT ![r].cancelled = TRUE]
    /\ UNCHANGED << relayVars, engine >>

ConcNext ==
    \/ \E r \in Reqs, i \in Impls : CPost(r, i)
    \/ \E r \in Reqs : CCreateRunReturns(r)
    \/ \E r \in Reqs : \E e \in RunThrown(r) : CCreateRunThrows(r, e)
    \/ \E r \in Reqs : CStreamReturns(r)
    \/ \E r \in Reqs : \E e \in RunThrown(r) : CStreamThrows(r, e)
    \/ \E r \in Reqs : \E n \in RunNotifs(r) : CNextYields(r, n)
    \/ \E r \in Reqs : CReturnSettles(r)
    \/ \E r \in Reqs : CNextDone(r)
    \/ \E r \in Reqs : \E e \in RunThrown(r) : CNextThrows(r, e)
    \/ \E r \in Reqs : \E v \in RunResults(r) : CResultReturns(r, v)
    \/ \E r \in Reqs : \E e \in RunThrown(r) : CResultThrows(r, e)
    \/ \E r \in Reqs : CClientRead(r)
    \/ \E r \in Reqs : CClientCancel(r)

ConcSpec == Init /\ [][ConcNext]_vars

\* ------------------------------------------------------- derived notions
IsWrite(t) == t.op = "write"
IsCall(t) == t.op = "call"

\* the accepted writes of a trace, as frames, in order
FramesOf(tr) ==
    LET w == SelectSeq(tr, IsWrite)
    IN  [k \in 1..Len(w) |-> sse(w[k].ev, w[k].data)]

\* frames accepted by the channel, in order
Writes == FramesOf(trace)

\* the kinds of the frames written
Kinds == [k \in 1..Len(Writes) |-> Writes[k].event]

\* how many entries of the trace have this op and event
CountEv(op, ev) == Cardinality({k \in 1..Len(trace) : trace[k].op = op /\ trace[k].ev = ev})
CountOp(op) == Cardinality({k \in 1..Len(trace) : trace[k].op = op})

Written(kind) == CountEv("write", kind)

\* the request was a POST and its stream exists
Streaming == pc \notin {"idle", "preflight", "refused"}

\* start() has returned
Ended == pc = "end"

\* the client did not disconnect while start() was running
Connected == cancelledAt \in {"", "end"}

\* the channel is not left open: closed, or closing once its queue is read
ChannelShut == state = "closed" \/ closeRequested

IsPrefix(s, t) == Len(s) <= Len(t) /\ \A k \in 1..Len(s) : s[k] = t[k]

\* ------------------------------------------------------------------ claims

\* C1: whatever the pipeline does (createRunAsync, run.stream, the iteration
\* or run.result returning or throwing at any point), a run whose client
\* stays connected writes exactly one `done`, `done` is the last frame
\* written, and close() is accepted exactly once, as the effect that
\* directly follows the `done` write; before start() returns neither has
\* happened.
C1_DoneLastThenClose ==
    /\ (Streaming /\ ~Ended) => (Written("done") = 0 /\ CountOp("close") = 0)
    /\ (Ended /\ Connected) =>
          /\ Written("done") = 1
          /\ Writes[Len(Writes)] = sse("done", OkJson)
          /\ CountOp("close") = 1
          /\ CountOp("closefail") = 0
          /\ trace[Len(trace)] = Ev("close", "", "")
          /\ trace[Len(trace) - 1] = Ev("write", "done", OkJson)

\* a connected run whose iteration threw after one notification has ended
C1_Witness ==
    /\ Ended /\ cancelledAt = ""
    /\ failedAt = "next" /\ Len(pulled) = 1
    /\ Written("done") = 1 /\ closeRequested

\* C2: in every completed run (start() has returned and the client stayed
\* connected) exactly one of `final` and `error` is written: one `final` and
\* no `error` exactly when nothing in the try block threw, one `error` and
\* no `final` exactly when createRunAsync, run.stream, the iteration or
\* run.result threw.
C2_FinalXorError ==
    (Ended /\ Connected) =>
        /\ Written("final") + Written("error") = 1
        /\ (failedAt = "none") <=> (Written("final") = 1 /\ Written("error") = 0)
        /\ (failedAt \in {"createRunAsync", "stream", "iterate", "next", "result"})
              <=> (Written("error") = 1 /\ Written("final") = 0)

\* a completed run whose result fetch threw after two notifications
C2_Witness ==
    /\ Ended /\ cancelledAt = ""
    /\ failedAt = "result" /\ Len(pulled) = 2
    /\ Written("error") = 1 /\ Written("final") = 0

\* C3: for every POST request the first effect of the relay is the write of
\* `ready` with payload {ok: true}: it precedes createRunAsync, run.stream
\* and every other frame, and it is written exactly once whatever happens
\* later (failure of the pipeline or disconnection of the client).
C3_ReadyFirst ==
    Streaming =>
        /\ Len(trace) >= 1
        /\ trace[1] = Ev("write", "ready", OkJson)
        /\ Written("ready") = 1
        /\ CountEv("writefail", "ready") = 0
        /\ Writes[1] = sse("ready", OkJson)
        /\ \A k \in 1..Len(trace) :
              (trace[k].op = "call" \/ trace[k].ev \in {"progress", "final", "error", "done"})
                 => k > 1

\* a run that failed at run creation still wrote `ready` first
C3_Witness ==
    /\ Ended /\ failedAt = "createRunAsync"
    /\ Kinds = << "ready", "error", "done" >>
    /\ trace[2] = Ev("call", "createRunAsync", "")

\* the kinds written so far are a prefix of ready progress* (final|error) done
OrderedKinds(k) ==
    \A j \in 1..Len(k) :
        /\ (j = 1) <=> (k[j] = "ready")
        /\ k[j] = "progress" => \A h \in 2..(j - 1) : k[h] = "progress"
        /\ k[j] \in {"final", "error"} => \A h \in 2..(j - 1) : k[h] = "progress"
        /\ k[j] = "done" => /\ j = Len(k)
                            /\ j >= 3
                            /\ k[j - 1] \in {"final", "error"}

\* C4: the frames written in one run are append-only, and their kinds always
\* form a prefix of ready progress* (final | error) done: no `progress`
\* after `final` or `error`, nothing after `done`; a run whose client stays
\* connected ends with the whole pattern.
C4_AppendOnlyOrdered ==
    /\ [](Streaming => OrderedKinds(Kinds))
    /\ []((Ended /\ Connected) => Kinds[Len(Kinds)] = "done")
    /\ [][IsPrefix(FramesOf(trace), FramesOf(trace'))]_vars

\* a run wrote progress, then error, then done
C4_Witness ==
    /\ Ended
    /\ Kinds = << "ready", "progress", "error", "done" >>

\* C5: the terminal step (write `done`, then close the channel) executes
\* exactly once even when the write of `error` itself fails: in every run
\* where the `error` write threw, the finally block ran once, attempted
\* `done` once and called close() once, so the channel is shut.
C5_TerminalStepOnErrorWriteFailure ==
    (Ended /\ CountEv("writefail", "error") >= 1) =>
        /\ CountOp("finally") = 1
        /\ Written("done") + CountEv("writefail", "done") = 1
        /\ CountOp("close") + CountOp("closefail") = 1
        /\ ChannelShut

\* C6: when the client disconnects mid-stream, no exception leaves start():
\* every write failure is absorbed inside the relay.
C6_NoExceptionLeavesRelay ==
    (Ended /\ ~Connected) => rejected = NoExc

\* the `progress` frames written, in order
ProgressFrames ==
    LET isProgress(f) == f.event = "progress" IN SelectSeq(Writes, isProgress)

\* C7: the relay accepts both forms of the value of run.stream: it iterates
\* `.events` of a wrapper and the value itself otherwise, never failing to
\* obtain the sequence, and a connected run writes one `progress` frame per
\* notification of the underlying sequence, in order, whichever form
\* carried it.
C7_BothFormsAccepted ==
    (Streaming /\ raw \in {RawBare, RawWrapper, RawNullEv}) =>
        /\ failedAt # "iterate"
        /\ CountEv("call", "next") >= 1
        /\ (Ended /\ Connected) =>
              ProgressFrames =
                 [k \in 1..Len(pulled) |-> sse("progress", "\"" \o pulled[k] \o "\"")]

\* the text of the `error` payload for the value caught, with or without
\* the `name` key
ErrorJson(fallbackText, withName) ==
    "{\"message\":\""
       \o (IF caught.message \in {UNDEF, ""} THEN fallbackText ELSE caught.message)
       \o "\""
       \o (IF withName /\ caught.name # UNDEF
           THEN ",\"name\":\"" \o caught.name \o "\"" ELSE "")
       \o "}"

\* the frame written just before `done` in an ended, connected run
FrameBeforeDone == Writes[Len(Writes) - 1]

C9_AlwaysTerminates ==
    Streaming ~>
        (/\ Ended
         /\ ChannelShut
         /\ Connected => (Written("done") = 1 /\ CountOp("close") = 1))

\* a run drained the longest sequence, finished, and the client read it all
C9_Witness ==
    /\ Ended /\ failedAt = "none"
    /\ Len(pulled) = MaxNotifs
    /\ Written("done") = 1
    /\ state = "closed" /\ queue = << >> /\ cancelledAt = ""

\* C10: a request to the handler whose method is not POST gets 405 and opens
\* nothing: no stream exists, no run is created and no frame (not even
\* `ready`) is written.
C10_NonPostRefused ==
    (method \notin {"", "POST"} /\ pc # "preflight") =>
        /\ pc = "refused"
        /\ response = 405
        /\ state = "none"
        /\ queue = << >>
        /\ trace = << >>
        /\ raw = NoRaw

\* a GET was refused
C10_Witness ==
    /\ pc = "refused" /\ method = "GET" /\ response = 405 /\ impl = "handler"

\* the kinds of a successful run that relayed n notifications
SuccessKinds(n) ==
    << "ready" >> \o [k \in 1..n |-> "progress"] \o << "final", "done" >>

\* C11: a body that is not JSON, or no body at all, never aborts a POST: the
\* request is answered 200 with a stream, the prompt is "" as for the body
\* {"prompt": ""}, run.stream receives that prompt, a successful pipeline
\* gives ready progress* final done, and an `error` frame appears only
\* when the pipeline itself failed.
C11_MalformedBodyIsEmptyPrompt ==
    (body # NoBody /\ ~JsonParses(body)) =>
        /\ Streaming
        /\ response = 200
        /\ prompt = ""
        /\ prompt = ParsePrompt("{\"prompt\":\"\"}")
        /\ trace[1] = Ev("write", "ready", OkJson)
        /\ \A k \in 1..Len(trace) :
              (trace[k].op = "call" /\ trace[k].ev = "stream") => trace[k].data = ""
        /\ Written("error") >= 1 =>
              failedAt \in {"createRunAsync", "stream", "iterate", "next", "result"}
        /\ (Ended /\ Connected /\ failedAt = "none") => Kinds = SuccessKinds(Len(pulled))

\* a request with the body `not json` ran to completion
C11_Witness ==
    /\ Ended /\ body = "not json" /\ failedAt = "none"
    /\ Kinds = << "ready", "progress", "final", "done" >>

\* C12: once a write on the channel has failed, the relay treats the channel
\* as terminal for the run: it asks the sequence for no further item,
\* receives none, never calls run.result and never attempts a write of the
\* same kind again; a failed `progress` write is followed by the release of
\* the iterator.
C12_WriteFailureIsTerminal ==
    \A k \in 1..Len(trace) :
        trace[k].op = "writefail" =>
            /\ \A j \in (k + 1)..Len(trace) :
                  /\ ~(trace[j].op = "call" /\ trace[j].ev \in {"next", "result"})
                  /\ trace[j].op # "got"
                  /\ ~(trace[j].op \in {"write", "writefail"} /\ trace[j].ev = trace[k].ev)
            /\ (trace[k].ev = "progress" /\ Len(trace) > k) =>
                  trace[k + 1] = Ev("call", "return", "")

\* a `progress` write failed after the client left, and the run ended
C12_Witness ==
    /\ Ended
    /\ CountEv("writefail", "progress") = 1
    /\ CountEv("call", "return") = 1
    /\ Len(pulled) = 1

\* how many entries before position k of the trace have this op and event
CountBefore(k, op, ev) ==
    Cardinality({j \in 1..(k - 1) : trace[j].op = op /\ trace[j].ev = ev})

\* C13: run.result is called only after the sequence has been drained: the
\* call directly follows the sequence reporting its end, every notification
\* the sequence yielded has by then been written as a `progress` frame,
\* nothing is yielded afterwards, and the result is fetched at most once.
C13_ResultAfterDrain ==
    /\ CountEv("call", "result") <= 1
    /\ \A k \in 1..Len(trace) :
          (trace[k].op = "call" /\ trace[k].ev = "result") =>
              /\ k > 1
              /\ trace[k - 1] = Ev("got", "end", "")
              /\ CountBefore(k, "got", "item") = Len(pulled)
              /\ CountBefore(k, "write", "progress") = Len(pulled)
              /\ \A j \in (k + 1)..Len(trace) : trace[j].op # "got"

\* two notifications were relayed, then the result was fetched
C13_Witness ==
    /\ Ended /\ failedAt = "none"
    /\ CountEv("call", "result") = 1
    /\ Len(pulled) = 2 /\ Written("progress") = 2
    /\ Written("final") = 1

\* the `progress` writes the relay issued, accepted by the channel or not
ProgressAttempts ==
    LET isAttempt(t) == t.ev = "progress" /\ t.op \in {"write", "writefail"}
    IN  SelectSeq(trace, isAttempt)

\* the items the iteration handed to the loop body, in order
ItemsGot ==
    LET isItem(t) == t.op = "got" /\ t.ev = "item"
        g == SelectSeq(trace, isItem)
    IN  [k \in 1..Len(g) |-> g[k].data]

\* C14: at every point of every run the relay has issued exactly one
\* `progress` write per item drained from the sequence, in the order the
\* items were yielded, each carrying the JSON text of its item and nothing
\* else; every such write but possibly the last is accepted by the channel,
\* and the last one too while the client stays connected, so that no item is
\* dropped, duplicated, reordered or altered.
C14_ProgressVerbatim ==
    /\ ItemsGot = pulled
    /\ Len(ProgressAttempts) = Len(pulled)
    /\ \A k \in 1..Len(ProgressAttempts) :
          /\ ProgressAttempts[k].data = "\"" \o pulled[k] \o "\""
          /\ (k < Len(pulled) \/ Connected) => ProgressAttempts[k].op = "write"
    /\ Connected => Written("progress") = Len(pulled)

\* a connected run whose sequence yielded two different items and then
\* failed: both items are on the channel, in order
C14_Witness ==
    /\ Ended /\ Connected
    /\ failedAt = "next"
    /\ pulled = << "n1", "n2" >>
    /\ ProgressFrames = << sse("progress", "\"n1\""), sse("progress", "\"n2\"") >>

\* C15: writes are incremental.  `ready` is on the channel before the run is
\* created and started; the `progress` event of an item is written in the
\* very step the item arrives, before the next item is requested, so the
\* k-th request for an item is issued with k-1 items received and k-1
\* `progress` writes issued; and a frame is in the channel the moment it is
\* written: while the client is connected the frames it has read and the
\* frames waiting in the channel's queue are all the frames written so far,
\* whether the pipeline is still running or not.
C15_IncrementalWrites ==
    /\ \A k \in 1..Len(trace) :
          /\ (trace[k].op = "call" /\ trace[k].ev \in {"createRunAsync", "stream"}) =>
                CountBefore(k, "write", "ready") = 1
          /\ (trace[k].op = "got" /\ trace[k].ev = "item") =>
                /\ k < Len(trace)
                /\ trace[k + 1].op \in {"write", "writefail"}
                /\ trace[k + 1].ev = "progress"
                /\ trace[k + 1].data = "\"" \o trace[k].data \o "\""
          /\ (trace[k].op = "call" /\ trace[k].ev = "next") =>
                /\ CountBefore(k, "got", "item") = CountBefore(k, "call", "next")
                /\ CountBefore(k, "write", "progress") = CountBefore(k, "call", "next")
    /\ cancelledAt = "" => Len(queue) + nread = Len(Writes)
    /\ (cancelledAt = "" /\ pc = "next") =>
          Len(queue) + nread = 1 + Len(pulled)

\* the pipeline is still running (its last stage has not returned, the relay
\* awaits a third item) and the client has already read `ready` and both
\* `progress` frames
C15_Witness ==
    /\ pc = "next"
    /\ ~RunSettled
    /\ Len(pulled) = 2
    /\ nread = 3
    /\ cancelledAt = ""

\* the names of the stages invoked so far, in order
StagesInvoked == [k \in 1..Len(engine.invoked) |-> engine.invoked[k].stage]

\* the text of the `error` payload each implementation writes for the value
\* a stage threw
StageErrorJson ==
    "{\"message\":\"" \o engine.genError.message \o "\""
       \o (IF impl = "handler"
           THEN ",\"name\":\"" \o engine.genError.name \o "\"" ELSE "")
       \o "}"

C17_StagesInOrder ==
    /\ Len(engine.invoked) <= 3
    /\ StagesInvoked = SubSeq(<< "plan", "act", "reflect" >>, 1, Len(engine.invoked))
    /\ Len(engine.outputs) = engine.stageNo
    /\ Len(engine.invoked) \in {engine.stageNo, engine.stageNo + 1}
    /\ (engine.running # "") =>
          /\ Len(engine.invoked) = engine.stageNo + 1
          /\ engine.running = engine.invoked[Len(engine.invoked)].stage
    /\ \A k \in 1..Len(engine.invoked) :
          /\ engine.invoked[k].input = prompt
          /\ \A j \in 1..Len(engine.outputs) :
                engine.invoked[k].input # engine.outputs[j]
          /\ engine.invoked[k].instruction =
                Instruction(engine.invoked[k].stage, ParsePrompt(body))

\* a run of the prompt "hi" in which all three stages ran and returned
C17_Witness ==
    /\ prompt = "hi"
    /\ StagesInvoked = << "plan", "act", "reflect" >>
    /\ engine.outputs = << "t1", "t1", "t1" >>
    /\ Written("final") = 1

\* the frames accepted by the channel of request r, and their kinds
ChanFrames(r) == FramesOf(chans[r].trace)
ChanKinds(r) == [k \in 1..Len(ChanFrames(r)) |-> ChanFrames(r)[k].event]

\* every frame the relay can write for the run of request r
OwnFrames(r) ==
    { sse("ready", "{\"ok\":true}"), sse("done", "{\"ok\":true}"),
      sse("progress", "\"" \o r \o "-n1\""),
      sse("final", "\"" \o r \o "-res\""),
      sse("error", "{\"message\":\"" \o r \o "-boom\",\"name\":\"Error\"}"),
      sse("error", "{\"message\":\"" \o r \o "-boom\"}") }

\* a step touches the channel and the run of one request at most
OneRequestSteps ==
    \A r \in Reqs, q \in Reqs :
        (r # q /\ (chans'[q] # chans[q] \/ runs'[q] # runs[q])) =>
            (chans'[r] = chans[r] /\ runs'[r] = runs[r])

\* C18: with two requests served in any interleaving, the channel of each
\* receives only frames of its own run (its own items, result and error),
\* the kinds on each channel form a prefix of ready progress* (final|error)
\* done, and a request whose client stayed connected ends with the whole
\* pattern and its own items whatever happened to the other request; no
\* step of one request, its failure and its client's disconnect included,
\* changes the channel or the run of the other.
C18_ChannelsIsolated ==
    /\ [](\A r \in Reqs :
            /\ \A k \in 1..Len(ChanFrames(r)) : ChanFrames(r)[k] \in OwnFrames(r)
            /\ OrderedKinds(ChanKinds(r))
            /\ (runs[r].pc # "idle") =>
                  /\ Len(chans[r].trace) >= 1
                  /\ chans[r].trace[1] = Ev("write", "ready", "{\"ok\":true}")
            /\ (runs[r].pc = "idle") => chans[r] = NoChan
            /\ (runs[r].pc = "end" /\ ~runs[r].cancelled) =>
                  /\ ChanKinds(r) =
                        << "ready" >> \o [k \in 1..Len(runs[r].pulled) |-> "progress"]
                           \o << (IF runs[r].failedAt = "none" THEN "final" ELSE "error"),
                                 "done" >>
                  /\ chans[r].closeRequested)
    /\ [][OneRequestSteps]_vars

\* request a failed in its iteration after its client had disconnected, and
\* request b, served meanwhile, completed with its own item and result
C18_Witness ==
    /\ runs["a"].pc = "end" /\ runs["a"].cancelled
    /\ runs["a"].failedAt \in {"next", "write"}
    /\ runs["b"].pc = "end" /\ ~runs["b"].cancelled
    /\ ChanFrames("b") = << sse("ready", "{\"ok\":true}"),
                            sse("progress", "\"b-n1\""),
                            sse("final", "\"b-res\""),
                            sse("done", "{\"ok\":true}") >>
    /\ Len(chans["a"].trace) >= 3

\* the k-th frame of a run as its outcome alone determines it, whichever
\* implementation served it: `ready`, one `progress` per item drained,
\* `final` with the result when nothing failed, `done`
RefFrame(k) ==
    IF k = 1 THEN sse("ready", "{\"ok\":true}")
    ELSE IF k <= 1 + Len(pulled) THEN sse("progress", "\"" \o pulled[k - 1] \o "\"")
    ELSE IF k = 2 + Len(pulled) /\ failedAt = "none" THEN sse("final", "\"res\"")
    ELSE sse("done", "{\"ok\":true}")

\* C19: when run.stream resolves to the sequence itself (or the run fails
\* before it resolves), the frames a run writes do not depend on which of
\* the two implementations serves it: both obtain the sequence, every frame
\* other than `error` is the frame the outcome of the run determines
\* (RefFrame), an `error` frame stands at the same position in both, right
\* after the `progress` frames of a failed run, and a connected run ends
\* with the same number of frames; only the `error` payload differs, by the
\* fallback text and by `name`, which the handler alone writes.
C19_ImplementationsAgree ==
    (Streaming /\ raw \in {NoRaw, RawBare, RawNullEv}) =>
        /\ failedAt # "iterate"
        /\ \A k \in 1..Len(Writes) :
              IF Writes[k].event = "error"
              THEN /\ k = 2 + Len(pulled)
                   /\ failedAt # "none"
                   /\ Writes[k].data =
                         (IF impl = "handler" THEN ErrorJson("unknown error", TRUE)
                                              ELSE ErrorJson("unexpected error", FALSE))
              ELSE Writes[k] = RefFrame(k)
        /\ (Ended /\ Connected) =>
              /\ Len(Writes) = Len(pulled) + 3
              /\ (Writes[Len(pulled) + 2].event = "error") <=> (failedAt # "none")

\* POST served a bare sequence that yielded one item and then threw an Error
\* with an empty message: the frames are the handler's but for the payload
\* of `error`
C19_Witness ==
    /\ Ended /\ Connected
    /\ impl = "POST"
    /\ raw = RawBare
    /\ failedAt = "next"
    /\ caught = [message |-> "", name |-> "Error"]
    /\ Len(pulled) = 1
    /\ Writes[3] = sse("error", "{\"message\":\"unexpected error\"}")
    /\ Kinds = << "ready", "progress", "error", "done" >>

\* what C20 states of a run whose run.stream resolved to one of `forms`: the
\* loop never starts, so nothing is drained, no `progress` and no `final` is
\* written or attempted and run.result is never called; the TypeError of
\* `for await` is caught, and a connected run writes exactly ready, error,
\* done and closes the channel once
NeitherFormOutcome(forms) ==
    (Streaming /\ raw \in forms) =>
        /\ Ended
        /\ failedAt = "iterate"
        /\ pulled = << >>
        /\ CountEv("write", "progress") + CountEv("writefail", "progress") = 0
        /\ CountEv("write", "final") + CountEv("writefail", "final") = 0
        /\ CountEv("call", "next") = 0
        /\ CountEv("call", "result") = 0
        /\ CountOp("close") <= 1
        /\ Connected =>
              /\ Kinds = << "ready", "error", "done" >>
              /\ CountOp("close") = 1
              /\ CountOp("closefail") = 0
              /\ ChannelShut

\* C20 (as amended): when run.stream resolves to null or undefined, or to a
\* value whose `.events` is non-null and cannot be iterated at all (neither
\* an asynchronous nor a synchronous iterable), the relay writes exactly
\* ready, error, done: no `progress`, no `final`, run.result is never called
\* and the channel is closed once.
C20_NeitherFormIsAnError == NeitherFormOutcome({RawNull, RawBadEv})

\* C20 as stated: the same of every `.events` that is non-null and not an
\* asynchronous sequence, an array included.
C20_AnyNonAsyncEvents == NeitherFormOutcome({RawNull, RawBadEv, RawArrayEv})

\* the handler was handed a wrapper whose `.events` is a plain object
C20_Witness ==
    /\ Ended /\ Connected
    /\ impl = "handler"
    /\ raw = RawBadEv
    /\ caught = NotIterable
    /\ Kinds = << "ready", "error", "done" >>
    /\ CountOp("close") = 1

====
